---- MODULE Spec2Model ----
(***************************************************************************)
(* Model of the tram-network scripts:                                      *)
(*   create_tram_graph.py, create_tram_graph_osm_only.py,                  *)
(*   create_tram_graph_demand.py  (stop snapping, crossing removal)        *)
(*   add_weight_to_stops.py       (importance-weighted routing)            *)
(* The graph G is a networkx MultiDiGraph: `nodes` is its node list in     *)
(* insertion order, `node_data` the attribute dictionary of every node and *)
(* `edges` the set of (u, v, key) edges with their attributes.             *)
(***************************************************************************)
EXTENDS Integers, Sequences, FiniteSets, TLC

\* ------------------------------------------------------------------ bounds
MaxNodes == 5          \* largest input network (nodes of a chain)
MaxStops == 2          \* largest number of stop records in stops_gdf
MaxRuns  == 2          \* how often the simplifier is run on the same graph
MaxPois  == 2          \* largest number of POI records in pois_gdf
MaxFeatures == 2       \* largest number of point features of rate_demand.py

\* ------------------------------------------------------------- vocabulary
Absent  == -1                       \* an attribute the dictionary does not hold
NoGeom  == <<>>                     \* an edge without 'geometry'
WaySets == {{1}, {2}, {1, 2}}       \* values of an edge's 'osmid' (int or list)

Scripts == {"create_tram_graph", "create_tram_graph_osm_only", "create_tram_graph_demand"}

VARIABLES
    script,              \* which script is running
    pc,                  \* its position
    tram_graph,          \* the loaded network (never mutated: G is a copy)
    tree_order,          \* how the nearest-node search tree ranks equidistant nodes
    nodes,               \* G.nodes, insertion order
    node_data,           \* G.nodes[n]: attribute record of node n
    edges,               \* G.edges(keys=True, data=True)
    stops_gdf,           \* the stop records, in file order (empty: no file)
    stop_idx,            \* position of the snapping loop in stops_gdf
    stop_to_node,        \* stop id -> node, as create_tram_graph*.py keep it
    dropped,             \* the records the snapping loop skipped, and why
    nodes_to_remove,     \* the crossing nodes found by the last flagging pass
    rm_idx,              \* position of the removal loop in nodes_to_remove
    connections_to_add,  \* the edges synthesized by the last loop iteration
    run,                 \* number of the simplifier run in progress
    pois_gdf,            \* add_weight_to_stops.py: the POI points, projected
    petla_stops,         \* its list of terminus nodes
    start_node,          \* the two it draws
    end_node,
    weighted_cost,       \* data['weighted_cost'] of every edge that has one
    route                \* the route it finds

routerVars == <<pois_gdf, petla_stops, start_node, end_node, weighted_cost, route>>

\* generate_tram_lines: its arguments' and locals' values
VARIABLES num_lines, petla_nodes, line_i, route_nodes, current_node, visited, targets,
          tram_lines

lineVars == <<num_lines, petla_nodes, line_i, route_nodes, current_node, visited, targets,
              tram_lines>>

\* rate_demand.py: the features' categories, the frame to draw next, and the
\* values of update's locals in the frame drawn last
VARIABLES feature_categories, frame, day_multiplier, night_multiplier, animated_weights

demandVars == <<feature_categories, frame, day_multiplier, night_multiplier,
                animated_weights>>

vars == <<script, pc, tram_graph, tree_order, nodes, node_data, edges, stops_gdf, stop_idx,
          stop_to_node, dropped, nodes_to_remove, rm_idx, connections_to_add, run,
          routerVars, lineVars, demandVars>>

\* generate_tram_lines has not been called.
NoLines ==
    /\ num_lines = 0
    /\ petla_nodes = <<>>
    /\ line_i = 0
    /\ route_nodes = <<>>
    /\ current_node = Absent
    /\ visited = {}
    /\ targets = <<>>
    /\ tram_lines = <<>>

\* rate_demand.py does not run.
NoFrames ==
    /\ feature_categories = <<>>
    /\ frame = 0
    /\ day_multiplier = <<>>
    /\ night_multiplier = <<>>
    /\ animated_weights = <<>>

\* ---------------------------------------------------------------- helpers
Range(s) == {s[i] : i \in DOMAIN s}

Min(S) == CHOOSE x \in S : \A y \in S : x <= y

Pos(s, x) == CHOOSE i \in DOMAIN s : s[i] = x

RECURSIVE SumSeq(_)
SumSeq(s) == IF s = <<>> THEN 0 ELSE Head(s) + SumSeq(Tail(s))

RECURSIVE SortBy(_, _)
SortBy(S, rank) ==
    IF S = {} THEN <<>>
    ELSE LET m == CHOOSE e \in S : \A f \in S : rank[e] <= rank[f]
         IN  <<m>> \o SortBy(S \ {m}, rank)

\* ------------------------------------------------------------ Graph Model
\* G.in_edges(c, keys=True, data=True): predecessors in adjacency order,
\* the parallel edges of one predecessor by key.
in_edges(N, E, c) ==
    LET S == {e \in E : e.v = c}
    IN  SortBy(S, [e \in S |-> Pos(N, e.u) * (Cardinality(E) + 1) + e.key])

out_edges(N, E, c) ==
    LET S == {e \in E : e.u = c}
    IN  SortBy(S, [e \in S |-> Pos(N, e.v) * (Cardinality(E) + 1) + e.key])

\* MultiDiGraph.new_edge_key: the number of u->v edges, raised while taken.
RECURSIVE FreeKey(_, _)
FreeKey(keys, k) == IF k \in keys THEN FreeKey(keys, k + 1) ELSE k

new_edge_key(E, u, v) ==
    LET keys == {e.key : e \in {f \in E : f.u = u /\ f.v = v}}
    IN  FreeKey(keys, Cardinality(keys))

\* Variant: the new edge runs from v to u.
add_edge_swapped(E, u, v, attrs) ==
    E \cup {[u |-> v, v |-> u, key |-> new_edge_key(E, v, u),
             length |-> attrs.length, osmid |-> attrs.osmid,
             geometry |-> attrs.geometry]}

\* G.add_edge(u, v, **attrs) without a key: a new parallel edge.
add_edge(E, u, v, attrs) ==
    E \cup {[u |-> u, v |-> v, key |-> new_edge_key(E, u, v),
             length |-> attrs.length, osmid |-> attrs.osmid,
             geometry |-> attrs.geometry]}

RECURSIVE add_edges(_, _)
add_edges(E, conns) ==
    IF conns = <<>> THEN E
    ELSE add_edges(add_edge(E, Head(conns).u, Head(conns).v, Head(conns).attrs),
                   Tail(conns))

\* G.remove_node(c): the node, its attributes and every incident edge.
remove_node_edges(E, c) == {e \in E : e.u # c /\ e.v # c}

remove_node_list(N, c) == SelectSeq(N, LAMBDA n : n # c)

\* ----------------------------------------------------- Topology Simplifier
\* Variant: switch nodes are put on the list as well.
is_crossing_or_switch(script_, railway) ==
    railway # "absent" /\ railway \in {"railway_crossing", "switch"}

\* The test that puts a node on nodes_to_remove.
is_crossing(script_, railway) ==
    railway # "absent" /\ railway = "railway_crossing"

\* Variant: every in/out pair counts as one way.
same_way_always(osmid_in, osmid_out) == TRUE

\* set(osmid_in) & set(osmid_out)
same_way(osmid_in, osmid_out) == (osmid_in \cap osmid_out) # {}

\* Variant: the out-edge's length is not added.
combined_length_in_only(data_in, data_out) == data_in.length

\* combined_attrs['length']
combined_length(data_in, data_out) == data_in.length + data_out.length

\* combined_attrs['geometry']. create_tram_graph*.py join the two line
\* strings when the in-edge ends where the out-edge starts and pop the
\* attribute otherwise, but only when both edges carry one;
\* create_tram_graph_demand.py keeps data_in's copy untouched.
combined_geometry(script_, data_in, data_out) ==
    IF script_ = "create_tram_graph_demand" THEN data_in.geometry
    ELSE IF data_in.geometry # NoGeom /\ data_out.geometry # NoGeom
         THEN IF data_in.geometry[Len(data_in.geometry)] = data_out.geometry[1]
              THEN data_in.geometry \o Tail(data_out.geometry)
              ELSE NoGeom
         ELSE data_in.geometry

\* combined_attrs = data_in.copy() with the two attributes above replaced.
combined_attrs(script_, data_in, data_out) ==
    [length   |-> combined_length(data_in, data_out),
     osmid    |-> data_in.osmid,
     geometry |-> combined_geometry(script_, data_in, data_out)]

\* The (u, v, combined_attrs) of every in/out pair of c that shares a way,
\* in the order of the two nested loops.
RECURSIVE pair_row(_, _, _)
pair_row(script_, data_in, outs) ==
    IF outs = <<>> THEN <<>>
    ELSE (IF same_way(data_in.osmid, Head(outs).osmid)
          THEN <<[u |-> data_in.u, v |-> Head(outs).v,
                  attrs |-> combined_attrs(script_, data_in, Head(outs))]>>
          ELSE <<>>)
         \o pair_row(script_, data_in, Tail(outs))

RECURSIVE pair_rows(_, _, _)
pair_rows(script_, ins, outs) ==
    IF ins = <<>> THEN <<>>
    ELSE pair_row(script_, Head(ins), outs) \o pair_rows(script_, Tail(ins), outs)

connections(script_, N, E, c) ==
    pair_rows(script_, in_edges(N, E, c), out_edges(N, E, c))

\* One iteration of the removal loop on the edge set.
remove_crossing_edges(script_, N, E, c) ==
    remove_node_edges(add_edges(E, connections(script_, N, E, c)), c)

\* Variant: a node without a matching pair is left in the graph.
skipped_when_unmatched(script_, N, E, c) ==
    c \notin Range(N) \/ connections(script_, N, E, c) = <<>>

\* `if node_id not in G: continue`
skipped(script_, N, E, c) == c \notin Range(N)

\* Variant: the loop ends after its first iteration.
loop_exhausted_after_one(idx, todo) == idx > Len(todo) \/ idx > 1

\* `for node_id in nodes_to_remove` has no element left.
loop_exhausted(idx, todo) == idx > Len(todo)

\* The whole removal loop as a function of the list it walks.
RECURSIVE removal_loop(_, _, _, _)
removal_loop(script_, N, E, todo) ==
    IF todo = <<>> THEN E
    ELSE IF skipped(script_, N, E, Head(todo))
         THEN removal_loop(script_, N, E, Tail(todo))
         ELSE removal_loop(script_, remove_node_list(N, Head(todo)),
                           remove_crossing_edges(script_, N, E, Head(todo)),
                           Tail(todo))

\* ------------------------------------------------------------ Stop Snapper
\* Coordinates are kept doubled, so that the centre of two grid points is a
\* grid point again.
\* shapely's centroid: the point itself, the midpoint of a two-point line,
\* the centre of a rectangle (given by its ring) and the mean of the points
\* of a multi-point.
centroid2(geometry) ==
    LET c == geometry.coords
    IN  CASE geometry.geom_type = "Point"      -> <<2 * c[1][1], 2 * c[1][2]>>
          [] geometry.geom_type = "LineString" -> <<c[1][1] + c[2][1], c[1][2] + c[2][2]>>
          [] geometry.geom_type = "Polygon"    -> <<c[1][1] + c[3][1], c[1][2] + c[3][2]>>
          [] geometry.geom_type = "MultiPoint" -> <<c[1][1] + c[2][1], c[1][2] + c[2][2]>>

\* stop.geometry.x, stop.geometry.y
point2(geometry) == <<2 * geometry.coords[1][1], 2 * geometry.coords[1][2]>>

NoXY == <<>>

\* Variant: a line or an area is reduced to its first coordinate.
snap_xy_first_coordinate(script_, geometry) ==
    IF geometry.geom_type = "Point" THEN point2(geometry)
    ELSE IF script_ = "create_tram_graph_demand" THEN point2(geometry)
    ELSE IF geometry.geom_type \in {"LineString", "Polygon"} THEN point2(geometry)
    ELSE NoXY

\* The x, y the nearest-node search is given, or NoXY for `continue`.
\* create_tram_graph_demand.py has one `else` for every kind but Point; the
\* other two scripts name LineString and Polygon and skip the rest.
snap_xy(script_, geometry) ==
    IF geometry.geom_type = "Point" THEN point2(geometry)
    ELSE IF script_ = "create_tram_graph_demand" THEN centroid2(geometry)
    ELSE IF geometry.geom_type \in {"LineString", "Polygon"} THEN centroid2(geometry)
    ELSE NoXY

\* Squared distance between a node and a doubled point, in doubled units.
dist2(D, n, xy2) ==
    (2 * D[n].x - xy2[1]) * (2 * D[n].x - xy2[1])
      + (2 * D[n].y - xy2[2]) * (2 * D[n].y - xy2[2])

\* The nodes at the least distance from a point.
nearest_set(N, D, xy2) ==
    {n \in Range(N) : \A m \in Range(N) : dist2(D, n, xy2) <= dist2(D, m, xy2)}

\* ox.distance.nearest_nodes(G, x, y): a nearest-neighbour query on a search
\* tree built from the nodes on every call. It answers with one node at the
\* least distance; of several such nodes it is the one the tree comes to
\* first, which is the same on every call but owes nothing to the order in
\* which the nodes were inserted into G.
nearest_nodes(N, D, xy2, order) ==
    LET S == nearest_set(N, D, xy2)
    IN  CHOOSE n \in S : \A m \in S : Pos(order, n) <= Pos(order, m)

\* stop_data
stop_data(script_, stop) ==
    [id |-> stop.id,
     demand |-> IF script_ = "create_tram_graph_demand" THEN stop.demand ELSE Absent,
     type |-> stop.type]

\* Variant: the demand of the last stop replaces the sum.
total_demand_of_last(stops) == stops[Len(stops)].demand

\* sum(s['demand'] for s in G.nodes[nearest_node]['stops'])
total_demand_of(stops) == SumSeq([i \in DOMAIN stops |-> stops[i].demand])

\* should_add_stop of create_tram_graph_osm_only.py: the stop's name is in
\* the GeoJSON lookup. The other scripts add every stop.
should_add_stop(script_, stop) ==
    script_ # "create_tram_graph_osm_only" \/ stop.name_matched

\* The node record after a stop has been attached to it.
attach(script_, rec, stop) ==
    LET stops == Append(rec.stops, stop_data(script_, stop))
    IN  IF script_ = "create_tram_graph_demand"
        THEN [rec EXCEPT !.stops = stops,
                         !.total_demand = total_demand_of(stops),
                         !.has_petla = rec.has_petla \/ stop.type = "petla"]
        ELSE [rec EXCEPT !.stops = stops]

\* -------------------------------------------------------- Weighted Router
proximity_radius_meters == 200

\* len(nearby_pois): the POI points inside the buffer around the node.
nearby_pois(rec, pois) ==
    Cardinality({i \in DOMAIN pois :
        (pois[i][1] - rec.x) * (pois[i][1] - rec.x)
          + (pois[i][2] - rec.y) * (pois[i][2] - rec.y)
            <= proximity_radius_meters * proximity_radius_meters})

\* Variant: the importance written on the node is not read.
importance_of_nothing(D, v) == 0

\* G_tram.nodes[v].get('importance_weight', 0)
importance_of(D, v) ==
    IF D[v].importance_weight = Absent THEN 0 ELSE D[v].importance_weight

\* Costs are quotients length / (importance + 1). They are kept exact, as
\* multiples of 1 / CostScale, CostScale being divisible by every possible
\* importance + 1.
RECURSIVE Gcd(_, _)
Gcd(a, b) == IF b = 0 THEN a ELSE Gcd(b, a % b)

RECURSIVE LcmUpTo(_)
LcmUpTo(n) == IF n <= 1 THEN 1 ELSE (LcmUpTo(n - 1) * n) \div Gcd(LcmUpTo(n - 1), n)

CostScale == LcmUpTo(MaxPois + 1)

\* edge_length / (target_node_importance + 1)
cost_quotient(edge_length, importance) ==
    (edge_length * CostScale) \div (importance + 1)

\* Variant: the importance of the edge's source node is used.
edge_cost_by_source(D, e) == cost_quotient(e.length, importance_of(D, e.u))

\* data['weighted_cost'] of one edge (u, v, k): the destination's importance.
edge_cost(D, e) == cost_quotient(e.length, importance_of(D, e.v))

\* Variant: of parallel edges the one with the lowest key counts.
edge_weight_first_key(E, wc, u, v) ==
    LET P == {e \in E : e.u = u /\ e.v = v}
        e0 == CHOOSE e \in P : \A f \in P : e.key <= f.key
    IN  IF e0 \in DOMAIN wc THEN wc[e0] ELSE CostScale

\* The weight networkx gives the step u -> v of a multigraph: the least
\* attr.get('weighted_cost', 1) of the parallel edges.
edge_weight(E, wc, u, v) ==
    Min({IF e \in DOMAIN wc THEN wc[e] ELSE CostScale :
            e \in {f \in E : f.u = u /\ f.v = v}})

\* The edges leaving the settled node u are relaxed: a successor v gets the
\* distance over u when that is its first or a strictly smaller one.
RECURSIVE relax(_, _, _, _, _, _)
relax(E, wc, u, succ, dist, pred) ==
    IF succ = {} THEN [dist |-> dist, pred |-> pred]
    ELSE LET v == CHOOSE x \in succ : TRUE
             d == dist[u] + edge_weight(E, wc, u, v)
         IN  IF dist[v] = Absent \/ d < dist[v]
             THEN relax(E, wc, u, succ \ {v}, [dist EXCEPT ![v] = d],
                        [pred EXCEPT ![v] = u])
             ELSE relax(E, wc, u, succ \ {v}, dist, pred)

\* Dijkstra's algorithm from the source: settle the nearest unsettled node,
\* relax the edges leaving it.
RECURSIVE dijkstra(_, _, _, _, _, _)
dijkstra(N, E, wc, dist, pred, done) ==
    LET fringe == {n \in Range(N) \ done : dist[n] # Absent}
    IN  IF fringe = {} THEN [dist |-> dist, pred |-> pred]
        ELSE LET u == CHOOSE n \in fringe : \A m \in fringe :
                          \/ dist[n] < dist[m]
                          \/ dist[n] = dist[m] /\ Pos(N, n) <= Pos(N, m)
                 r == relax(E, wc, u,
                            {e.v : e \in {f \in E : f.u = u}} \ (done \cup {u}),
                            dist, pred)
             IN  dijkstra(N, E, wc, r.dist, r.pred, done \cup {u})

RECURSIVE path_to(_, _, _)
path_to(pred, s, t) == IF t = s THEN <<s>> ELSE Append(path_to(pred, s, pred[t]), t)

\* Variant: without a path the two end points are returned as a route.
shortest_path_or_direct(N, E, wc, s, t) ==
    LET r == dijkstra(N, E, wc,
                      [n \in Range(N) |-> IF n = s THEN 0 ELSE Absent],
                      [n \in Range(N) |-> Absent], {})
    IN  IF r.dist[t] = Absent THEN <<s, t>> ELSE path_to(r.pred, s, t)

\* nx.shortest_path(G, source, target, weight='weighted_cost'); <<>> stands
\* for NetworkXNoPath, which the script turns into route = [].
shortest_path(N, E, wc, s, t) ==
    LET r == dijkstra(N, E, wc,
                      [n \in Range(N) |-> IF n = s THEN 0 ELSE Absent],
                      [n \in Range(N) |-> Absent], {})
    IN  IF r.dist[t] = Absent THEN <<>> ELSE path_to(r.pred, s, t)

\* ------------------------------------------------------------ path_finder
\* route = None: a value that is no node sequence.
None == <<Absent>>

\* nodes_with_stops of get_random_stop, in node order.
nodes_with_stops(N, D) == SelectSeq(N, LAMBDA n : D[n].stops # <<>>)

\* The nodes get_random_stop can return: any node with stops, or None
\* (Absent) when there is none. The stop drawn with it is only printed.
get_random_stop(N, D) ==
    IF nodes_with_stops(N, D) = <<>> THEN {Absent} ELSE Range(nodes_with_stops(N, D))

\* weight="length"
length_weight(E) == [e \in E |-> e.length]

\* The try block of compute_random_route: the path, or None on NetworkXNoPath.
route_or_None(N, E, s, t) ==
    LET r == shortest_path(N, E, length_weight(E), s, t)
    IN  IF r = <<>> THEN None ELSE r

\* --------------------------------------------------- Loop Line Synthesizer
\* find_petla_stops: the nodes hosting a stop of type pętla, in node order.
find_petla_stops(N, D) ==
    SelectSeq(N, LAMBDA n : \E i \in DOMAIN D[n].stops : D[n].stops[i].type = "petla")

\* d.get('total_demand', 0)
demand_of(D, n) == IF D[n].total_demand = Absent THEN 0 ELSE D[n].total_demand

\* high_demand_nodes after its sort: the nodes with positive demand that are
\* no terminus, by descending demand, nodes of equal demand in node order.
high_demand_nodes(N, D, start_petla, petla) ==
    LET S == {n \in Range(N) : demand_of(D, n) > 0 /\ n # start_petla
                                /\ n \notin Range(petla)}
        top == IF S = {} THEN 0
               ELSE CHOOSE d \in {demand_of(D, n) : n \in S} :
                        \A n \in S : demand_of(D, n) <= d
    IN  SortBy(S, [n \in S |-> (top - demand_of(D, n)) * (Len(N) + 1) + Pos(N, n)])

PoolSize == 8

\* [n for n, _ in high_demand_nodes[:8] if n not in visited]
target_pool(N, D, start_petla, petla) ==
    LET h == high_demand_nodes(N, D, start_petla, petla)
    IN  SelectSeq(SubSeq(h, 1, Min({PoolSize, Len(h)})), LAMBDA n : n # start_petla)

\* Variant: the list is not cut to its first 8 entries.
target_choices_of_all(N, D, start_petla, petla) ==
    LET pool == high_demand_nodes(N, D, start_petla, petla)
    IN  UNION { {q \in [1..Min({k, Len(pool)}) -> Range(pool)] :
                    \A i, j \in DOMAIN q : i # j => q[i] # q[j]} : k \in 3..5 }

\* targets[:random.randint(3, 5)] after random.shuffle(targets), for every
\* shuffle and every count: the sequences of min(count, len) different
\* nodes of the pool.
target_choices(N, D, start_petla, petla) ==
    LET pool == target_pool(N, D, start_petla, petla)
    IN  UNION { {q \in [1..Min({k, Len(pool)}) -> Range(pool)] :
                    \A i, j \in DOMAIN q : i # j => q[i] # q[j]} : k \in 3..5 }

\* get_edge_length: 0 without an edge, else the length of the first of the
\* parallel edges in the edge dictionary.
get_edge_length(E, u, v) ==
    LET P == {e \in E : e.u = u /\ e.v = v}
    IN  IF P = {} THEN 0
        ELSE (CHOOSE e \in P : \A f \in P : e.key <= f.key).length

\* Variant: the whole path is appended, its first node included.
rest_of_whole(path) == path

\* path[1:]
rest_of(path) == SubSeq(path, 2, Len(path))

\* One turn of the loop over the targets, on the triple of route_nodes,
\* current_node and visited.
visit_target(N, E, st, target) ==
    LET path == shortest_path(N, E, length_weight(E), st.current_node, target)
    IN  IF path = <<>> THEN st
        ELSE [route_nodes |-> st.route_nodes \o rest_of(path),
              current_node |-> target,
              visited |-> st.visited \cup Range(path)]

\* Variant: the return to the terminus is not tried.
closed_route_left_open(N, E, route_, current, start_petla) == route_

\* The route after the return to the starting terminus has been tried.
closed_route(N, E, route_, current, start_petla) ==
    LET return_path == shortest_path(N, E, length_weight(E), current, start_petla)
    IN  IF current # start_petla /\ return_path # <<>>
        THEN route_ \o rest_of(return_path)
        ELSE route_

\* Variant: a route of any node count is a valid line.
valid_line_always(route_) == TRUE

\* len(route_nodes) > 3
valid_line(route_) == Len(route_) > 3

\* Variant: the demand of every node of the route is counted once.
line_info_nodes_once(N, D, E, i, route_, start_petla) ==
    [line_number |-> i,
     route |-> route_,
     start_stop |-> (CHOOSE st \in Range(D[start_petla].stops) : st.type = "petla").id,
     total_demand |-> LET once == SortBy(Range(route_), [n \in Range(route_) |-> Pos(N, n)])
                      IN  SumSeq([j \in DOMAIN once |-> demand_of(D, once[j])]),
     total_length |-> SumSeq([j \in 1..(Len(route_) - 1) |->
                                 get_edge_length(E, route_[j], route_[j + 1])]),
     num_stops |-> Cardinality({j \in DOMAIN route_ : demand_of(D, route_[j]) > 0})]

\* line_info; total_length stands for length_km * 1000, start_stop for the
\* terminus stop that names the line.
line_info(N, D, E, i, route_, start_petla) ==
    [line_number |-> i,
     route |-> route_,
     start_stop |-> (CHOOSE st \in Range(D[start_petla].stops) : st.type = "petla").id,
     total_demand |-> SumSeq([j \in DOMAIN route_ |-> demand_of(D, route_[j])]),
     total_length |-> SumSeq([j \in 1..(Len(route_) - 1) |->
                                 get_edge_length(E, route_[j], route_[j + 1])]),
     num_stops |-> Cardinality({j \in DOMAIN route_ : demand_of(D, route_[j]) > 0})]

\* Variant: one line for every terminus, whatever num_lines.
lines_to_try_every_terminus(n, petla) == Len(petla)

\* range(min(num_lines, len(petla_nodes)))
lines_to_try(n, petla) == Min({n, Len(petla)})

\* ------------------------------------------------------ Demand Aggregator
\* The floats of rate_demand.py are kept as exact fractions num / den in
\* lowest terms, den > 0.
Abs(n) == IF n < 0 THEN -n ELSE n

Q(n, d) ==
    LET g == Gcd(Abs(n), Abs(d))
        sign == IF d < 0 THEN -1 ELSE 1
    IN  [num |-> sign * (n \div g), den |-> sign * (d \div g)]

QAdd(a, b) == Q(a.num * b.den + b.num * a.den, a.den * b.den)

QSub(a, b) == QAdd(a, [num |-> -b.num, den |-> b.den])

QMul(a, b) ==
    LET g1 == Gcd(Abs(a.num), b.den)
        g2 == Gcd(Abs(b.num), a.den)
    IN  Q((a.num \div g1) * (b.num \div g2), (a.den \div g2) * (b.den \div g1))

QNegative(a) == a.num < 0

\* y = -0.5 (x^2 - 1.5) (x^2 + 0.8) on <-1.2; 1.2>
day_demand_function_chart(x_input) ==
    LET x_prime == QAdd(Q(-6, 5), QMul(Q(12, 5), Q(x_input, 23)))
        sq == QMul(x_prime, x_prime)
    IN  QMul(QMul(Q(-1, 2), QSub(sq, Q(3, 2))), QAdd(sq, Q(4, 5)))

\* y = (x / 2)^2 on the interval shifted by 0.4
night_demand_function_chart(x_input) ==
    LET x_prime == QAdd(QAdd(Q(-6, 5), QMul(Q(12, 5), Q(x_input, 23))), Q(2, 5))
        half == QMul(x_prime, Q(1, 2))
    IN  QMul(half, half)

\* if multiplier < 0: multiplier = 0.001
floored(multiplier) == IF QNegative(multiplier) THEN Q(1, 1000) ELSE multiplier

\* The part of the table of base weights the modelled features use.
base_category_weights ==
    [c \in {"bars", "shops", "schools"} |->
        CASE c = "bars" -> Q(7, 5) [] c = "shops" -> Q(1, 1) [] c = "schools" -> Q(3, 2)]

default_weight == Q(1, 2)

night_affected_categories == {"bars"}

\* Variant: every category of the table is weighted by the day multiplier.
animated_weight_day_only(category, day, night) ==
    IF category \in DOMAIN base_category_weights
    THEN QMul(base_category_weights[category], day)
    ELSE default_weight

\* One turn of the loop over feature_categories.
animated_weight(category, day, night) ==
    LET base_w == IF category \in DOMAIN base_category_weights
                  THEN base_category_weights[category] ELSE default_weight
    IN  IF category \in night_affected_categories THEN QMul(base_w, night)
        ELSE IF category \in DOMAIN base_category_weights THEN QMul(base_w, day)
        ELSE base_w

\* frames=range(24)
Frames == 24

\* ------------------------------------------------------------------ inputs
NodeRec(railway, x, y) ==
    [railway |-> railway, x |-> x, y |-> y, stops |-> <<>>,
     stops_as_json |-> FALSE, total_demand |-> Absent, has_petla |-> FALSE,
     type |-> "absent", importance_weight |-> Absent,
     is_railway_crossing |-> "unset", is_railway_switch |-> "unset"]

Edge(u, v, key, length, osmid, geometry) ==
    [u |-> u, v |-> v, key |-> key, length |-> length, osmid |-> osmid,
     geometry |-> geometry]

\* A one-way track 1 -> 2 -> ... -> n, every segment 100 m long.
ChainEdges(n, way) == {Edge(i, i + 1, 0, 100, way[i], NoGeom) : i \in 1..(n - 1)}

\* What else the network holds around node 3.
Decorations == {"none", "parallel", "reverse", "bypass", "loop",
                "geom_joined", "geom_apart", "geom_in_only"}

Decorate(E, n, way, d) ==
    LET g23 == <<<<2, 0>>, <<3, 0>>>>
        g34 == <<<<3, 0>>, <<4, 0>>>>
        g34far == <<<<3, 1>>, <<4, 0>>>>
        e23 == Edge(2, 3, 0, 100, way[2], NoGeom)
        e34 == Edge(3, 4, 0, 100, way[3], NoGeom)
    IN  CASE d = "none"     -> E
          [] d = "parallel" -> E \cup {Edge(2, 3, 1, 40, {1}, NoGeom)}
          [] d = "reverse"  -> E \cup {Edge(3, 2, 0, 40, {1}, NoGeom)}
          [] d = "bypass"   -> E \cup {Edge(2, 4, 0, 150, {2}, NoGeom)}
          [] d = "loop"     -> E \cup {Edge(3, 3, 0, 40, {1, 2}, NoGeom)}
          [] d = "geom_joined" ->
                (E \ {e23, e34}) \cup {[e23 EXCEPT !.geometry = g23],
                                       [e34 EXCEPT !.geometry = g34]}
          [] d = "geom_apart" ->
                (E \ {e23, e34}) \cup {[e23 EXCEPT !.geometry = g23],
                                       [e34 EXCEPT !.geometry = g34far]}
          [] d = "geom_in_only" ->
                (E \ {e23}) \cup {[e23 EXCEPT !.geometry = g23]}

\* The networks the simplifier is run on.
ChainGraphs ==
    { [nodes |-> [i \in 1..n |-> i],
       node_data |-> [i \in 1..n |-> NodeRec(tag[i], i, 0)],
       edges |-> Decorate(ChainEdges(n, way), n, way, d)] :
        <<n, way, tag, d>> \in
          UNION { {n} \X {w \in [1..(n - 1) -> WaySets] : w[1] = {1}}
                      \X {t \in [1..n -> {"absent", "railway_crossing", "switch"}] :
                            /\ t[1] # "railway_crossing"
                            /\ t[n] = "absent"
                            /\ \A i \in 2..(n - 1) : t[i] # "switch"}
                      \X (IF n >= 4 THEN Decorations ELSE {"none"})
                  : n \in 3..MaxNodes } }

\* The stop registry: what a record's geometry can be.
Geometries ==
    {[geom_type |-> "Point",      coords |-> <<<<0, 0>>>>],
     [geom_type |-> "Point",      coords |-> <<<<1, 0>>>>],
     [geom_type |-> "LineString", coords |-> <<<<0, 0>>, <<4, 0>>>>],
     [geom_type |-> "Polygon",    coords |-> <<<<-1, 0>>, <<1, 0>>, <<1, 4>>, <<-1, 4>>>>],
     [geom_type |-> "MultiPoint", coords |-> <<<<0, 0>>, <<4, 0>>>>]}

StopRecords(script_, k) ==
    {[id |-> k, demand |-> d, type |-> t, geometry |-> g, name_matched |-> m] :
        <<d, t, g, m>> \in {1, 2} \X {"petla", "przystanek"} \X Geometries
                            \X (IF script_ = "create_tram_graph_osm_only"
                                THEN BOOLEAN ELSE {TRUE})}

StopFiles(script_) ==
    UNION { {f \in [1..len -> UNION {StopRecords(script_, k) : k \in 1..len}] :
                \A k \in 1..len : f[k].id = k} : len \in 0..MaxStops }

\* A junction of three tracks, its nodes listed in either order.
StarGraphs ==
    { [nodes |-> order,
       node_data |-> [i \in 1..3 |->
                        CASE i = 1 -> NodeRec("absent", 0, 0)
                          [] i = 2 -> NodeRec("absent", 2, 0)
                          [] i = 3 -> NodeRec("absent", 0, 2)],
       edges |-> {Edge(1, 2, 0, 100, {1}, NoGeom), Edge(1, 3, 0, 100, {2}, NoGeom)}] :
        order \in {<<1, 2, 3>>, <<3, 2, 1>>} }

\* The network add_weight_to_stops.py loads: four nodes a kilometre apart,
\* node 1 and mostly node 4 (sometimes node 3 too) carrying a terminus.
RouterNode(type, x, y) == [NodeRec("absent", x, y) EXCEPT !.type = type]

RouterEdges(a, b, c, d, e, f, h) ==
    {Edge(1, 2, 0, a, {1}, NoGeom) : x \in IF a = Absent THEN {} ELSE {1}}
    \cup {Edge(1, 3, 0, b, {1}, NoGeom) : x \in IF b = Absent THEN {} ELSE {1}}
    \cup {Edge(2, 4, 0, c, {1}, NoGeom) : x \in IF c = Absent THEN {} ELSE {1}}
    \cup {Edge(3, 4, 0, d, {1}, NoGeom) : x \in IF d = Absent THEN {} ELSE {1}}
    \cup {Edge(1, 2, 1, e, {2}, NoGeom) : x \in IF e = Absent \/ a = Absent THEN {} ELSE {1}}
    \cup {Edge(2, 1, 0, f, {1}, NoGeom) : x \in IF f = Absent THEN {} ELSE {1}}
    \cup {Edge(4, 2, 0, h, {1}, NoGeom) : x \in IF h = Absent THEN {} ELSE {1}}

RouterGraphs ==
    { [nodes |-> <<1, 2, 3, 4>>,
       node_data |-> [i \in 1..4 |->
                        CASE i = 1 -> RouterNode("petla", 0, 0)
                          [] i = 2 -> RouterNode("przystanek", 1000, 0)
                          [] i = 3 -> RouterNode(IF 3 \in T THEN "petla" ELSE "absent",
                                                 1000, 1000)
                          [] i = 4 -> RouterNode(IF 4 \in T THEN "petla" ELSE "przystanek",
                                                 2000, 0)],
       edges |-> RouterEdges(q[1], q[2], q[3], q[4], q[5], q[6], q[7])] :
        <<T, q>> \in {{1}, {1, 4}, {1, 3, 4}}
                       \X ({Absent, 0, 100, 300} \X {Absent, 0, 100, 300}
                            \X {Absent, 100} \X {Absent, 100} \X {Absent, 50}
                            \X {Absent, 100} \X {Absent, 100}) }

\* Where a POI can lie: 100 m from node 2, 150 m from node 3, 250 m from it.
PoiPlaces == <<<<1100, 0>>, <<1000, 1150>>, <<1000, 1250>>>>

PoiFiles ==
    UNION { {[i \in 1..len |-> PoiPlaces[f[i]]] :
                f \in {g \in [1..len -> DOMAIN PoiPlaces] :
                          \A i \in 1..(len - 1) : g[i] <= g[i + 1]}} :
            len \in 0..MaxPois }

\* The networks path_finder.py loads: the router's networks, with stops
\* hosted by the nodes of H.
HostSets == {{}, {2}, {1, 4}, {1, 3, 4}, {1, 2, 3, 4}}

PathFinderGraphs ==
    { [g EXCEPT !.node_data =
          [n \in DOMAIN g.node_data |->
              [g.node_data[n] EXCEPT
                  !.stops = IF n \in H
                            THEN <<[id |-> n, demand |-> Absent, type |-> "przystanek"]>>
                            ELSE <<>>]]] :
        <<g, H>> \in {r \in RouterGraphs : r.node_data[4].type = "petla"
                                         /\ r.node_data[3].type = "absent"} \X HostSets }

\* The networks generate_tram_lines is called on: nodes 1 and 2 can host a
\* terminus stop, nodes 3..6 a stop with demand.
LineNode(n, type, demand) ==
    IF demand = 0 THEN NodeRec("absent", n, 0)
    ELSE [NodeRec("absent", n, 0) EXCEPT
             !.stops = <<[id |-> n, demand |-> demand, type |-> type]>>,
             !.total_demand = demand,
             !.has_petla = (type = "petla")]

Track(u, v, length) == Edge(u, v, 0, length, {1}, NoGeom)

BothWays(u, v) == {Track(u, v, 100), Track(v, u, 100)}

Ring == {Track(1, 3, 100), Track(4, 5, 100), Track(5, 6, 100), Track(6, 1, 100),
         Track(2, 3, 100), Track(6, 2, 100)}

LineTopologies ==
    { Ring \cup {Track(3, 4, 100)},
      Ring \cup {Track(3, 4, 300), Edge(3, 4, 1, 50, {2}, NoGeom)},
      BothWays(1, 3) \cup BothWays(3, 4) \cup BothWays(4, 5) \cup BothWays(5, 6)
          \cup BothWays(2, 3),
      {Track(1, 3, 100), Track(3, 4, 100), Track(4, 1, 100)} \cup BothWays(5, 6),
      BothWays(1, 3) \cup BothWays(2, 4),
      {Track(1, 3, 100), Track(3, 4, 100), Track(4, 5, 100), Track(5, 6, 100),
       Track(2, 3, 100)},
      {Track(1, 2, 100), Track(2, 3, 100), Track(3, 4, 100), Track(4, 1, 100)} }

DemandVectors == {<<2, 1, 1, 1>>, <<1, 2, 0, 3>>, <<1, 1, 0, 0>>, <<0, 0, 0, 0>>}

\* A terminus with nine stops around it, eight of them reached by a track
\* there and back, the one of highest demand without a track towards it.
StarLineGraph ==
    [nodes |-> [n \in 1..11 |-> n],
     node_data |-> [n \in 1..11 |->
                      CASE n = 1 -> LineNode(1, "petla", 1)
                        [] n = 2 -> LineNode(2, "przystanek", 0)
                        [] OTHER -> LineNode(n, "przystanek", n - 2)],
     edges |-> UNION {BothWays(1, n) : n \in 2..10} \cup {Track(11, 1, 100)}]

LineGraphs ==
    { [nodes |-> <<1, 2, 3, 4, 5, 6>>,
       node_data |-> [n \in 1..6 |->
                        IF n <= 2
                        THEN LineNode(n, IF n \in T THEN "petla" ELSE "przystanek", 1)
                        ELSE LineNode(n, "przystanek", d[n - 2])],
       edges |-> E] :
        <<T, d, E>> \in {{}, {1}, {1, 2}} \X DemandVectors \X LineTopologies }
    \cup {StarLineGraph}

\* The categories found for the point features of the GeoJSON file; "none"
\* stands for a feature without a recognised category.
FeatureLists ==
    UNION {[1..len -> {"bars", "shops", "schools", "none"}] : len \in 0..MaxFeatures}

\* A track 1 -> 2 -> 3 along the x axis, node 2 a level crossing or not.
PipelineGraphs ==
    { [nodes |-> <<1, 2, 3>>,
       node_data |-> [i \in 1..3 |->
                        CASE i = 1 -> NodeRec("absent", 0, 0)
                          [] i = 2 -> NodeRec(tag, 2, 0)
                          [] i = 3 -> NodeRec("absent", 4, 0)],
       edges |-> {Edge(1, 2, 0, 100, {1}, NoGeom), Edge(2, 3, 0, 100, {1}, NoGeom)}] :
        tag \in {"absent", "railway_crossing"} }

\* ---------------------------------------------------------------- actions
InitSimplify ==
    /\ script \in {"create_tram_graph", "create_tram_graph_demand"}
    /\ tram_graph \in ChainGraphs
    /\ tree_order = tram_graph.nodes
    /\ nodes = tram_graph.nodes
    /\ node_data = tram_graph.node_data
    /\ edges = tram_graph.edges
    /\ stops_gdf = <<>>
    /\ stop_idx = 1
    /\ stop_to_node = <<>>
    /\ dropped = {}
    /\ pc = "flag"
    /\ nodes_to_remove = <<>>
    /\ rm_idx = 1
    /\ connections_to_add = <<>>
    /\ run = 1
    /\ pois_gdf = <<>>
    /\ petla_stops = <<>>
    /\ start_node = Absent
    /\ end_node = Absent
    /\ weighted_cost = <<>>
    /\ route = <<>>
    /\ NoLines
    /\ NoFrames

\* The pass that collects nodes_to_remove. create_tram_graph*.py also write
\* the two flags on every node; create_tram_graph_demand.py writes nothing.
FlagCrossings ==
    /\ pc = "flag"
    /\ nodes_to_remove' =
          SelectSeq(nodes, LAMBDA n : is_crossing(script, node_data[n].railway))
    /\ node_data' =
          IF script = "create_tram_graph_demand" THEN node_data
          ELSE [n \in DOMAIN node_data |->
                  [node_data[n] EXCEPT
                     !.is_railway_crossing =
                        IF is_crossing(script, node_data[n].railway)
                        THEN "true" ELSE "false",
                     !.is_railway_switch =
                        IF ~is_crossing(script, node_data[n].railway)
                           /\ node_data[n].railway = "switch"
                        THEN "true" ELSE "false"]]
    /\ rm_idx' = 1
    /\ pc' = "remove"
    /\ UNCHANGED <<script, tram_graph, tree_order, nodes, edges, stops_gdf, stop_idx,
                   stop_to_node, dropped, connections_to_add, run>>
    /\ UNCHANGED <<routerVars, lineVars, demandVars>>

\* One iteration of `for node_id in nodes_to_remove`.
RemoveCrossing ==
    /\ pc = "remove"
    /\ ~loop_exhausted(rm_idx, nodes_to_remove)
    /\ LET node_id == nodes_to_remove[rm_idx]
       IN  IF skipped(script, nodes, edges, node_id)
           THEN UNCHANGED <<nodes, node_data, edges, connections_to_add>>
           ELSE /\ connections_to_add' = connections(script, nodes, edges, node_id)
                /\ edges' = remove_crossing_edges(script, nodes, edges, node_id)
                /\ nodes' = remove_node_list(nodes, node_id)
                /\ node_data' = [n \in DOMAIN node_data \ {node_id} |-> node_data[n]]
    /\ rm_idx' = rm_idx + 1
    /\ UNCHANGED <<script, pc, tram_graph, tree_order, stops_gdf, stop_idx, stop_to_node, dropped,
                   nodes_to_remove, run>>
    /\ UNCHANGED <<routerVars, lineVars, demandVars>>

\* The loop is exhausted: the simplifier returns.
FinishSimplify ==
    /\ pc = "remove"
    /\ loop_exhausted(rm_idx, nodes_to_remove)
    /\ pc' = "simplified"
    /\ UNCHANGED <<script, tram_graph, tree_order, nodes, node_data, edges, stops_gdf, stop_idx,
                   stop_to_node, dropped, nodes_to_remove, rm_idx,
                   connections_to_add, run>>
    /\ UNCHANGED <<routerVars, lineVars, demandVars>>

\* The simplifier is run again on its own output.
RunAgain ==
    /\ pc = "simplified"
    /\ run < MaxRuns
    /\ run' = run + 1
    /\ pc' = "flag"
    /\ UNCHANGED <<script, tram_graph, tree_order, nodes, node_data, edges, stops_gdf, stop_idx,
                   stop_to_node, dropped, nodes_to_remove, rm_idx,
                   connections_to_add>>
    /\ UNCHANGED <<routerVars, lineVars, demandVars>>

NextSimplify == FlagCrossings \/ RemoveCrossing \/ FinishSimplify \/ RunAgain

SpecSimplify == InitSimplify /\ [][NextSimplify]_vars

InitSnap ==
    /\ script \in Scripts
    /\ tram_graph \in StarGraphs
    /\ tree_order \in {<<1, 2, 3>>, <<3, 2, 1>>}
    /\ nodes = tram_graph.nodes
    /\ node_data = tram_graph.node_data
    /\ edges = tram_graph.edges
    /\ stops_gdf \in StopFiles(script)
    /\ stop_idx = 1
    /\ stop_to_node = <<>>
    /\ dropped = {}
    /\ pc = "snap"
    /\ nodes_to_remove = <<>>
    /\ rm_idx = 1
    /\ connections_to_add = <<>>
    /\ run = 1
    /\ pois_gdf = <<>>
    /\ petla_stops = <<>>
    /\ start_node = Absent
    /\ end_node = Absent
    /\ weighted_cost = <<>>
    /\ route = <<>>
    /\ NoLines
    /\ NoFrames

\* One iteration of `for idx, stop in stops_gdf.iterrows()`.
SnapStop ==
    /\ pc = "snap"
    /\ stop_idx <= Len(stops_gdf)
    /\ LET stop == stops_gdf[stop_idx]
           xy2  == snap_xy(script, stop.geometry)
       IN  IF xy2 = NoXY
           THEN /\ dropped' = dropped \cup {[id |-> stop.id, why |-> "geometry"]}
                /\ UNCHANGED <<node_data, stop_to_node>>
           ELSE IF ~should_add_stop(script, stop)
           THEN /\ dropped' = dropped \cup {[id |-> stop.id, why |-> "name"]}
                /\ UNCHANGED <<node_data, stop_to_node>>
           ELSE LET nearest_node == nearest_nodes(nodes, node_data, xy2, tree_order)
                IN
                /\ node_data' = [node_data EXCEPT ![nearest_node] =
                                    attach(script, node_data[nearest_node], stop)]
                /\ stop_to_node' =
                      IF script = "create_tram_graph_demand" THEN stop_to_node
                      ELSE [i \in DOMAIN stop_to_node \cup {stop.id} |->
                              IF i = stop.id THEN nearest_node ELSE stop_to_node[i]]
                /\ UNCHANGED dropped
    /\ stop_idx' = stop_idx + 1
    /\ UNCHANGED <<script, pc, tram_graph, tree_order, nodes, edges, stops_gdf, nodes_to_remove,
                   rm_idx, connections_to_add, run>>
    /\ UNCHANGED <<routerVars, lineVars, demandVars>>

\* The loop over the records is over. create_tram_graph*.py then turn every
\* 'stops' list into a JSON string; create_tram_graph_demand.py returns G.
FinishSnap ==
    /\ pc = "snap"
    /\ stop_idx > Len(stops_gdf)
    /\ node_data' =
          IF script = "create_tram_graph_demand" THEN node_data
          ELSE [n \in DOMAIN node_data |->
                  [node_data[n] EXCEPT !.stops_as_json = (node_data[n].stops # <<>>)]]
    /\ pc' = "flag"
    /\ UNCHANGED <<script, tram_graph, tree_order, nodes, edges, stops_gdf, stop_idx, stop_to_node,
                   dropped, nodes_to_remove, rm_idx, connections_to_add, run>>
    /\ UNCHANGED <<routerVars, lineVars, demandVars>>

NextSnap == SnapStop \/ FinishSnap

SpecSnap == InitSnap /\ [][NextSnap]_vars

\* A whole run of one of the three graph-building scripts: the stops are
\* snapped, then the crossings are flagged and removed.
InitPipeline ==
    /\ script \in Scripts
    /\ tram_graph \in PipelineGraphs
    /\ tree_order \in {<<1, 2, 3>>, <<3, 2, 1>>}
    /\ nodes = tram_graph.nodes
    /\ node_data = tram_graph.node_data
    /\ edges = tram_graph.edges
    /\ stops_gdf \in StopFiles(script)
    /\ stop_idx = 1
    /\ stop_to_node = <<>>
    /\ dropped = {}
    /\ pc = "snap"
    /\ nodes_to_remove = <<>>
    /\ rm_idx = 1
    /\ connections_to_add = <<>>
    /\ run = 1
    /\ pois_gdf = <<>>
    /\ petla_stops = <<>>
    /\ start_node = Absent
    /\ end_node = Absent
    /\ weighted_cost = <<>>
    /\ route = <<>>
    /\ NoLines
    /\ NoFrames

NextPipeline == SnapStop \/ FinishSnap \/ FlagCrossings \/ RemoveCrossing \/ FinishSimplify

SpecPipeline == InitPipeline /\ [][NextPipeline]_vars

InitRouter ==
    /\ script = "add_weight_to_stops"
    /\ tram_graph \in RouterGraphs
    /\ tree_order = tram_graph.nodes
    /\ nodes = tram_graph.nodes
    /\ node_data = tram_graph.node_data
    /\ edges = tram_graph.edges
    /\ stops_gdf = <<>>
    /\ stop_idx = 1
    /\ stop_to_node = <<>>
    /\ dropped = {}
    /\ pc = "importance"
    /\ nodes_to_remove = <<>>
    /\ rm_idx = 1
    /\ connections_to_add = <<>>
    /\ run = 1
    /\ pois_gdf \in PoiFiles
    /\ petla_stops = <<>>
    /\ start_node = Absent
    /\ end_node = Absent
    /\ weighted_cost = <<>>
    /\ route = <<>>
    /\ NoLines
    /\ NoFrames

graphVars == <<script, tram_graph, tree_order, nodes, edges, stops_gdf, stop_idx,
               stop_to_node, dropped, nodes_to_remove, rm_idx, connections_to_add, run,
               lineVars, demandVars>>

\* The loop that gives every node its importance_weight.
AssignImportance ==
    /\ pc = "importance"
    /\ node_data' = [n \in DOMAIN node_data |->
                        [node_data[n] EXCEPT
                            !.importance_weight = nearby_pois(node_data[n], pois_gdf)]]
    /\ pc' = "select"
    /\ UNCHANGED <<graphVars, routerVars>>

\* Variant: the two terminus nodes are drawn with replacement.
SelectTermini_with_replacement ==
    /\ pc = "select"
    /\ petla_stops' = SelectSeq(nodes, LAMBDA n : node_data[n].type = "petla")
    /\ IF Len(petla_stops') < 2
       THEN /\ pc' = "exit"
            /\ UNCHANGED <<start_node, end_node>>
       ELSE /\ \E s, t \in Range(petla_stops') :
                  /\ start_node' = s
                  /\ end_node' = t
            /\ pc' = "cost"
    /\ UNCHANGED <<graphVars, node_data, pois_gdf, weighted_cost, route>>

\* The terminus nodes are listed; with fewer than two the script exits,
\* otherwise it draws two different ones.
SelectTermini ==
    /\ pc = "select"
    /\ petla_stops' = SelectSeq(nodes, LAMBDA n : node_data[n].type = "petla")
    /\ IF Len(petla_stops') < 2
       THEN /\ pc' = "exit"
            /\ UNCHANGED <<start_node, end_node>>
       ELSE /\ \E s, t \in Range(petla_stops') :
                  /\ s # t
                  /\ start_node' = s
                  /\ end_node' = t
            /\ pc' = "cost"
    /\ UNCHANGED <<graphVars, node_data, pois_gdf, weighted_cost, route>>

\* The loop that writes weighted_cost on every edge.
ComputeCosts ==
    /\ pc = "cost"
    /\ weighted_cost' = [e \in edges |-> edge_cost(node_data, e)]
    /\ pc' = "search"
    /\ UNCHANGED <<graphVars, node_data, pois_gdf, petla_stops, start_node, end_node, route>>

\* The search, its NetworkXNoPath handler included.
FindRoute ==
    /\ pc = "search"
    /\ route' = shortest_path(nodes, edges, weighted_cost, start_node, end_node)
    /\ pc' = "done"
    /\ UNCHANGED <<graphVars, node_data, pois_gdf, petla_stops, start_node, end_node,
                   weighted_cost>>

\* The script goes on after the search: the weighted graph is saved.
SaveGraph ==
    /\ pc = "done"
    /\ pc' = "saved"
    /\ UNCHANGED <<graphVars, node_data, routerVars>>

NextRouter == AssignImportance \/ SelectTermini \/ ComputeCosts \/ FindRoute \/ SaveGraph

SpecRouter == InitRouter /\ [][NextRouter]_vars

InitPathFinder ==
    /\ script = "path_finder"
    /\ tram_graph \in PathFinderGraphs
    /\ tree_order = tram_graph.nodes
    /\ nodes = tram_graph.nodes
    /\ node_data = tram_graph.node_data
    /\ edges = tram_graph.edges
    /\ stops_gdf = <<>>
    /\ stop_idx = 1
    /\ stop_to_node = <<>>
    /\ dropped = {}
    /\ pc = "pick_start"
    /\ nodes_to_remove = <<>>
    /\ rm_idx = 1
    /\ connections_to_add = <<>>
    /\ run = 1
    /\ pois_gdf = <<>>
    /\ petla_stops = <<>>
    /\ start_node = Absent
    /\ end_node = Absent
    /\ weighted_cost = <<>>
    /\ route = <<>>
    /\ NoLines
    /\ NoFrames

\* start_node, start_stop = get_random_stop(G)
PickStart ==
    /\ pc = "pick_start"
    /\ start_node' \in get_random_stop(nodes, node_data)
    /\ pc' = "pick_end"
    /\ UNCHANGED <<graphVars, node_data, pois_gdf, petla_stops, end_node, weighted_cost, route>>

\* end_node, end_stop = get_random_stop(G)
PickEnd ==
    /\ pc = "pick_end"
    /\ end_node' \in get_random_stop(nodes, node_data)
    /\ pc' = "retry"
    /\ UNCHANGED <<graphVars, node_data, pois_gdf, petla_stops, start_node, weighted_cost, route>>

\* One turn of the loop: while end_node == start_node, draw again.
RepickEnd ==
    /\ pc = "retry"
    /\ end_node = start_node
    /\ end_node' \in get_random_stop(nodes, node_data)
    /\ UNCHANGED <<graphVars, pc, node_data, pois_gdf, petla_stops, start_node, weighted_cost,
                   route>>

\* The loop is left; the search and its NetworkXNoPath handler; return route.
ComputeRoute ==
    /\ pc = "retry"
    /\ end_node # start_node
    /\ route' = route_or_None(nodes, edges, start_node, end_node)
    /\ pc' = "returned"
    /\ UNCHANGED <<graphVars, node_data, pois_gdf, petla_stops, start_node, end_node,
                   weighted_cost>>

NextPathFinder == PickStart \/ PickEnd \/ RepickEnd \/ ComputeRoute

SpecPathFinder == InitPathFinder /\ [][NextPathFinder]_vars

\* Both point-to-point routers.
InitRouting == InitRouter \/ InitPathFinder

NextRouting == NextRouter \/ NextPathFinder

SpecRouting == InitRouting /\ [][NextRouting]_vars

InitLines ==
    /\ script = "create_tram_graph_demand"
    /\ tram_graph \in LineGraphs
    /\ tree_order = tram_graph.nodes
    /\ nodes = tram_graph.nodes
    /\ node_data = tram_graph.node_data
    /\ edges = tram_graph.edges
    /\ stops_gdf = <<>>
    /\ stop_idx = 1
    /\ stop_to_node = <<>>
    /\ dropped = {}
    /\ pc = "lines"
    /\ nodes_to_remove = <<>>
    /\ rm_idx = 1
    /\ connections_to_add = <<>>
    /\ run = 1
    /\ pois_gdf = <<>>
    /\ petla_stops = <<>>
    /\ start_node = Absent
    /\ end_node = Absent
    /\ weighted_cost = <<>>
    /\ route = <<>>
    /\ num_lines \in {1, 6}
    /\ petla_nodes = <<>>
    /\ line_i = 0
    /\ route_nodes = <<>>
    /\ current_node = Absent
    /\ visited = {}
    /\ targets = <<>>
    /\ tram_lines = <<>>
    /\ NoFrames

builtVars == <<script, tram_graph, tree_order, nodes, node_data, edges, stops_gdf, stop_idx,
               stop_to_node, dropped, nodes_to_remove, rm_idx, connections_to_add, run,
               routerVars, demandVars>>

\* The call: the terminus nodes are listed; without one the result is [].
FindPetlaStops ==
    /\ pc = "lines"
    /\ petla_nodes' = find_petla_stops(nodes, node_data)
    /\ tram_lines' = <<>>
    /\ IF Len(petla_nodes') < 1
       THEN pc' = "lines_done" /\ line_i' = line_i
       ELSE pc' = "line_start" /\ line_i' = 1
    /\ UNCHANGED <<builtVars, num_lines, route_nodes, current_node, visited, targets>>

\* A line is begun at its terminus and its targets are drawn.
StartLine ==
    /\ pc = "line_start"
    /\ line_i <= lines_to_try(num_lines, petla_nodes)
    /\ LET start_petla == petla_nodes[line_i]
       IN  /\ route_nodes' = <<start_petla>>
           /\ current_node' = start_petla
           /\ visited' = {start_petla}
           /\ targets' \in target_choices(nodes, node_data, start_petla, petla_nodes)
    /\ pc' = "line_targets"
    /\ UNCHANGED <<builtVars, num_lines, petla_nodes, line_i, tram_lines>>

\* One turn of the loop over the targets.
VisitTarget ==
    /\ pc = "line_targets"
    /\ targets # <<>>
    /\ LET st == visit_target(nodes, edges,
                              [route_nodes |-> route_nodes, current_node |-> current_node,
                               visited |-> visited], Head(targets))
       IN  /\ route_nodes' = st.route_nodes
           /\ current_node' = st.current_node
           /\ visited' = st.visited
    /\ targets' = Tail(targets)
    /\ UNCHANGED <<builtVars, pc, num_lines, petla_nodes, line_i, tram_lines>>

\* The return to the terminus, the validity test and the line's record.
CloseLine ==
    /\ pc = "line_targets"
    /\ targets = <<>>
    /\ LET start_petla == petla_nodes[line_i]
           closed == closed_route(nodes, edges, route_nodes, current_node, start_petla)
       IN  /\ route_nodes' = closed
           /\ tram_lines' = IF valid_line(closed)
                            THEN Append(tram_lines,
                                        line_info(nodes, node_data, edges, line_i, closed,
                                                  start_petla))
                            ELSE tram_lines
    /\ line_i' = line_i + 1
    /\ pc' = "line_start"
    /\ UNCHANGED <<builtVars, num_lines, petla_nodes, current_node, visited, targets>>

\* return tram_lines
FinishLines ==
    /\ pc = "line_start"
    /\ line_i > lines_to_try(num_lines, petla_nodes)
    /\ pc' = "lines_done"
    /\ UNCHANGED <<builtVars, lineVars>>

NextLines == FindPetlaStops \/ StartLine \/ VisitTarget \/ CloseLine \/ FinishLines

SpecLines == InitLines /\ [][NextLines]_vars

InitDemand ==
    /\ script = "rate_demand"
    /\ tram_graph = [nodes |-> <<>>, node_data |-> <<>>, edges |-> {}]
    /\ tree_order = <<>>
    /\ nodes = <<>>
    /\ node_data = <<>>
    /\ edges = {}
    /\ stops_gdf = <<>>
    /\ stop_idx = 1
    /\ stop_to_node = <<>>
    /\ dropped = {}
    /\ pc = "animate"
    /\ nodes_to_remove = <<>>
    /\ rm_idx = 1
    /\ connections_to_add = <<>>
    /\ run = 1
    /\ pois_gdf = <<>>
    /\ petla_stops = <<>>
    /\ start_node = Absent
    /\ end_node = Absent
    /\ weighted_cost = <<>>
    /\ route = <<>>
    /\ NoLines
    /\ feature_categories \in FeatureLists
    /\ frame = 0
    /\ day_multiplier = <<>>
    /\ night_multiplier = <<>>
    /\ animated_weights = <<>>

\* update(frame), called by the animation for the frames 0..23 in turn.
Update ==
    /\ pc = "animate"
    /\ frame < Frames
    /\ day_multiplier' = floored(day_demand_function_chart(frame))
    /\ night_multiplier' = floored(night_demand_function_chart(frame))
    /\ animated_weights' = [i \in DOMAIN feature_categories |->
                               animated_weight(feature_categories[i], day_multiplier',
                                               night_multiplier')]
    /\ frame' = frame + 1
    /\ UNCHANGED <<script, pc, tram_graph, tree_order, nodes, node_data, edges, stops_gdf,
                   stop_idx, stop_to_node, dropped, nodes_to_remove, rm_idx,
                   connections_to_add, run, routerVars, lineVars, feature_categories>>

\* The animation has drawn its last frame and is saved.
SaveAnimation ==
    /\ pc = "animate"
    /\ frame = Frames
    /\ pc' = "animated"
    /\ UNCHANGED <<script, tram_graph, tree_order, nodes, node_data, edges, stops_gdf,
                   stop_idx, stop_to_node, dropped, nodes_to_remove, rm_idx,
                   connections_to_add, run, routerVars, lineVars, demandVars>>

NextDemand == Update \/ SaveAnimation

SpecDemand == InitDemand /\ [][NextDemand]_vars

\* ================================================================== claims
\* An edge without its key, and how often each such edge occurs.
Shape(e) == [u |-> e.u, v |-> e.v, length |-> e.length, osmid |-> e.osmid]

EdgeBag(E) ==
    [s \in {Shape(e) : e \in E} |-> Cardinality({e \in E : Shape(e) = s})]

Orderings(S) == {s \in [1..Cardinality(S) -> S] : Range(s) = S}

CrossingNodes(g) ==
    {n \in Range(g.nodes) : is_crossing(script, g.node_data[n].railway)}

\* C1: whatever the order in which the crossing nodes are listed, the
\* removal loop ends with the same edges (endpoints, lengths, way ids).
C1_OrderIndependent ==
    (pc = "simplified" /\ run = 1) =>
        \A todo \in Orderings(CrossingNodes(tram_graph)) :
            EdgeBag(removal_loop(script, tram_graph.nodes, tram_graph.edges, todo))
                = EdgeBag(edges)

\* C2: a second run of the simplifier finds no crossing node and changes
\* neither the nodes, their attributes nor the edges.
C2_Idempotent ==
    [][ run' >= 2 =>
          /\ nodes' = nodes
          /\ node_data' = node_data
          /\ edges' = edges
          /\ (pc' # "flag" => nodes_to_remove' = <<>>) ]_vars

C2_Witness ==
    /\ run = 2
    /\ pc = "simplified"
    /\ Len(nodes) < Len(tram_graph.nodes)
    /\ ~(edges \subseteq tram_graph.edges)

\* The in/out pairs of c that share a way.
MatchingPairs(E, c) ==
    {p \in {e \in E : e.v = c} \X {e \in E : e.u = c} :
        same_way(p[1].osmid, p[2].osmid)}

RECURSIVE PairLengthSum(_)
PairLengthSum(P) ==
    IF P = {} THEN 0
    ELSE LET p == CHOOSE q \in P : TRUE
         IN  p[1].length + p[2].length + PairLengthSum(P \ {p})

\* C3: every edge synthesized when a crossing node is removed is as long as
\* its in-edge and its out-edge together, and so are all of them summed.
C3_LengthConserved ==
    [][ (pc = "remove" /\ nodes' # nodes) =>
          LET c == nodes_to_remove[rm_idx]
              P == MatchingPairs(edges, c)
              new == connections_to_add'
          IN  /\ \A i \in DOMAIN new :
                    \E p \in P : /\ new[i].u = p[1].u
                                 /\ new[i].v = p[2].v
                                 /\ new[i].attrs.length = p[1].length + p[2].length
              /\ \A e \in edges' \ edges :
                    \E p \in P : /\ e.u = p[1].u
                                 /\ e.v = p[2].v
                                 /\ e.length = p[1].length + p[2].length
              /\ SumSeq([i \in DOMAIN new |-> new[i].attrs.length]) = PairLengthSum(P) ]_vars

C3_Witness ==
    /\ pc = "remove"
    /\ Len(connections_to_add) >= 2
    /\ \E e \in edges : e \notin tram_graph.edges /\ e.length = 140

\* What is left of the simplifier's work: it shrinks with every step.
Remaining ==
    (MaxRuns - run) * (2 * MaxNodes + 4)
      + (CASE pc = "flag"   -> MaxNodes + 3
           [] pc = "remove" -> Len(nodes_to_remove) - rm_idx + 2
           [] OTHER         -> 0)

\* Some step of the simplifier can be taken.
CanStep ==
    \/ pc = "flag"
    \/ pc = "remove" /\ ~loop_exhausted(rm_idx, nodes_to_remove)
                     /\ rm_idx \in DOMAIN nodes_to_remove
    \/ pc = "remove" /\ loop_exhausted(rm_idx, nodes_to_remove)
    \/ pc = "simplified" /\ run < MaxRuns

\* C4: the simplifier always ends (it is never stuck before its end and
\* every step brings it nearer), no node flagged crossing is left then, and
\* a crossing node without a matching pair goes without any edge being
\* added, the loop moving on to the next one.
C4_CrossingsRemoved ==
    [][ /\ (pc' # "simplified" => CanStep')
        /\ Remaining' < Remaining
        /\ (pc' = "simplified" => CrossingNodes(tram_graph) \cap Range(nodes') = {})
        /\ (/\ pc = "remove"
            /\ rm_idx <= Len(nodes_to_remove)
            /\ MatchingPairs(edges, nodes_to_remove[rm_idx]) = {}) =>
              /\ nodes_to_remove[rm_idx] \notin Range(nodes')
              /\ edges' \subseteq edges
              /\ pc' = "remove"
              /\ rm_idx' = rm_idx + 1 ]_vars

C4_Witness ==
    /\ pc = "simplified"
    /\ run = 1
    /\ Len(nodes_to_remove) >= 2
    /\ MatchingPairs(tram_graph.edges, nodes_to_remove[1]) = {}
    /\ \E e \in edges : e \notin tram_graph.edges

\* Scenario A: A -> B -> C -> D -> E, 100 m each, way 1, C a crossing.
ScenarioA ==
    [nodes |-> <<1, 2, 3, 4, 5>>,
     node_data |-> [i \in 1..5 |-> NodeRec(IF i = 3 THEN "railway_crossing"
                                           ELSE "absent", i, 0)],
     edges |-> {Edge(i, i + 1, 0, 100, {1}, NoGeom) : i \in 1..4}]

\* C5: scenario A ends as the path A -> B -> D -> E with exactly the edges
\* A->B (100), B->D (200), D->E (100).
C5_ScenarioA ==
    (tram_graph = ScenarioA /\ pc = "simplified") =>
        /\ nodes = <<1, 2, 4, 5>>
        /\ edges = {Edge(1, 2, 0, 100, {1}, NoGeom),
                    Edge(2, 4, 0, 200, {1}, NoGeom),
                    Edge(4, 5, 0, 100, {1}, NoGeom)}

C5_Witness == tram_graph = ScenarioA /\ pc = "simplified" /\ run = 1

\* ---------------------------------------------------- claims: Stop Snapper
\* The records the snapping loop has been through.
Processed == 1..(stop_idx - 1)

\* Where record k is found: (node, position in the node's 'stops').
Attachments(k) ==
    {p \in Range(nodes) \X (1..MaxStops + 1) :
        /\ p[2] \in DOMAIN node_data[p[1]].stops
        /\ node_data[p[1]].stops[p[2]].id = k}

HostsOf(k) == {p[1] : p \in Attachments(k)}

\* d.get('total_demand', 0)
DemandAt(n) ==
    IF node_data[n].total_demand = Absent THEN 0 ELSE node_data[n].total_demand

RECURSIVE DemandOfRecords(_)
DemandOfRecords(K) ==
    IF K = {} THEN 0
    ELSE LET k == CHOOSE j \in K : TRUE
         IN  stops_gdf[k].demand + DemandOfRecords(K \ {k})

\* The point a record stands for: itself, or the centroid of its geometry.
TargetOf(stop) ==
    IF stop.geometry.geom_type = "Point" THEN point2(stop.geometry)
    ELSE centroid2(stop.geometry)

\* C6: every record read so far hangs on exactly one node, a nearest one;
\* a node's total_demand is the sum of the demands of the records on it; two
\* records at the same place hang on the same node.
C6_DemandAccumulates ==
    script = "create_tram_graph_demand" =>
        /\ \A k \in Processed :
              /\ Cardinality(Attachments(k)) = 1
              /\ HostsOf(k) \subseteq nearest_set(nodes, node_data, TargetOf(stops_gdf[k]))
        /\ \A n \in Range(nodes) :
              DemandAt(n) = DemandOfRecords({k \in Processed : n \in HostsOf(k)})
        /\ \A j, k \in Processed :
              TargetOf(stops_gdf[j]) = TargetOf(stops_gdf[k]) => HostsOf(j) = HostsOf(k)

C6_Witness ==
    /\ script = "create_tram_graph_demand"
    /\ pc = "flag"
    /\ Len(stops_gdf) = 2
    /\ stops_gdf[1].geometry = stops_gdf[2].geometry
    /\ stops_gdf[1].demand = 1
    /\ stops_gdf[2].demand = 2
    /\ \E n \in Range(nodes) : Len(node_data[n].stops) = 2 /\ node_data[n].total_demand = 3

\* Of the nodes nearest to a point, the one inserted first.
FirstInserted(S) == CHOOSE n \in S : \A m \in S : Pos(nodes, n) <= Pos(nodes, m)

NonPoint(k) == stops_gdf[k].geometry.geom_type # "Point"

SnappedToCentroid(k) ==
    /\ Cardinality(Attachments(k)) = 1
    /\ HostsOf(k) \subseteq nearest_set(nodes, node_data, centroid2(stops_gdf[k].geometry))

CentroidKinds(script_) ==
    IF script_ = "create_tram_graph_demand"
    THEN {"LineString", "Polygon", "MultiPoint"}
    ELSE {"LineString", "Polygon"}

SimplePaths(s, t) ==
    UNION { {p \in [1..len -> Range(nodes)] :
                /\ p[1] = s
                /\ p[len] = t
                /\ \A i, j \in 1..len : i # j => p[i] # p[j]
                /\ \A i \in 1..(len - 1) :
                      \E e \in edges : e.u = p[i] /\ e.v = p[i + 1]} :
            len \in 2..Len(nodes) }

\* The cost of one step: the cheapest of the parallel edges.
StepCost(u, v) == Min({weighted_cost[e] : e \in {f \in edges : f.u = u /\ f.v = v}})

\* The cost of a path: the sum over its steps.
PathCost(p) == SumSeq([i \in 1..(Len(p) - 1) |-> StepCost(p[i], p[i + 1])])

\* C9: once the search has run, the route is empty exactly when the target
\* cannot be reached from the source; otherwise it is a path from the source
\* to the target whose cost, summed over its steps with the cheapest parallel
\* edge for each step, is not larger than the cost of any path from the
\* source to the target.
C9_LeastCostRoute ==
    pc = "done" =>
        LET P == SimplePaths(start_node, end_node)
        IN  /\ (P = {}) = (route = <<>>)
            /\ P # {} => /\ route \in P
                         /\ \A p \in P : PathCost(route) <= PathCost(p)

\* A search that had a choice: two routes of different cost, and on the
\* chosen one a step with parallel edges of different cost.
C9_Witness ==
    /\ pc = "done"
    /\ route # <<>>
    /\ \E p \in SimplePaths(start_node, end_node) : PathCost(route) < PathCost(p)
    /\ \E i \in 1..(Len(route) - 1) : \E e, f \in edges :
          /\ e.u = route[i] /\ e.v = route[i + 1]
          /\ f.u = route[i] /\ f.v = route[i + 1]
          /\ weighted_cost[e] < weighted_cost[f]

\* Two edges of the same length, the first leading to the more important node.
SameLengthPairs ==
    {<<e, f>> \in (DOMAIN weighted_cost) \X (DOMAIN weighted_cost) :
        /\ e.length = f.length
        /\ importance_of(node_data, e.v) > importance_of(node_data, f.v)}

\* C10 as stated: of two edges of equal length, zero included, the one whose
\* target node is strictly more important has the strictly lower
\* weighted_cost.
C10_StrictlyLower ==
    \A pr \in SameLengthPairs : weighted_cost[pr[1]] < weighted_cost[pr[2]]

\* C10: of two edges of equal positive length the one whose target node is
\* strictly more important has the strictly lower weighted_cost; of two
\* edges of length 0 both have weighted_cost 0.
C10_LowerForPositiveLength ==
    \A pr \in SameLengthPairs :
        IF pr[1].length > 0
        THEN weighted_cost[pr[1]] < weighted_cost[pr[2]]
        ELSE weighted_cost[pr[1]] = 0 /\ weighted_cost[pr[2]] = 0

\* Costs computed for a pair of positive length and for a pair of length 0.
C10_Witness ==
    /\ pc = "search"
    /\ \E pr \in SameLengthPairs : pr[1].length > 0
    /\ \E pr \in SameLengthPairs : pr[1].length = 0


\* ---------------------------------------------------------------------- C11
\* The nodes that can be reached from the nodes of S along edges.
RECURSIVE ReachableFrom(_)
ReachableFrom(S) ==
    LET T == S \cup {e.v : e \in {f \in edges : f.u \in S}}
    IN  IF T = S THEN S ELSE ReachableFrom(T)

\* The search has run for a pair without a directed path.
SearchedApart ==
    /\ pc \in {"done", "saved", "returned"}
    /\ end_node \notin ReachableFrom({start_node})

\* C11: when the search has run for a source and a target without a directed
\* path from the one to the other, the script has not stopped with an error
\* and its route is the no-route value (the empty list in
\* add_weight_to_stops.py, None in path_finder.py), never a node sequence.
C11_NoPathIsAValue ==
    SearchedApart =>
        route = IF script = "path_finder" THEN None ELSE <<>>

\* After a search without a path add_weight_to_stops.py has gone on to save
\* the graph.
C11_Witness ==
    /\ SearchedApart
    /\ pc = "saved"
    /\ route = <<>>


\* ------------------------------------------------- claims: generate_tram_lines
\* The routes of the lines produced so far.
Routes == {tram_lines[i].route : i \in DOMAIN tram_lines}

\* The nodes that host a terminus stop.
TerminusNodes ==
    {n \in Range(nodes) : \E st \in Range(node_data[n].stops) : st.type = "petla"}

Joined(u, v) == \E e \in edges : e.u = u /\ e.v = v

\* C12: whatever was drawn, in every line produced every two consecutive
\* route nodes are joined by an edge in that direction, and the route starts
\* at the terminus of the line, the line_number-th terminus node.
C12_RoutesAreValidPaths ==
    \A i \in DOMAIN tram_lines :
        LET r == tram_lines[i].route
        IN  /\ r[1] = petla_nodes[tram_lines[i].line_number]
            /\ r[1] \in TerminusNodes
            /\ \A j \in 1..(Len(r) - 1) : Joined(r[j], r[j + 1])

\* The call has returned two lines, one of them left open.
C12_Witness ==
    /\ pc = "lines_done"
    /\ Len(tram_lines) = 2
    /\ \E r \in Routes : r[1] # r[Len(r)]

\* The length of the shortest of the parallel edges u -> v, the one a
\* shortest-path segment uses.
UsedLength(u, v) == Min({e.length : e \in {f \in edges : f.u = u /\ f.v = v}})

\* C13: the total length reported for a line is the sum of the lengths of
\* the edges its shortest-path segments use, parallel edges of different
\* lengths included.
C13_LengthIsSumOfUsedEdges ==
    \A i \in DOMAIN tram_lines :
        LET r == tram_lines[i].route
        IN  tram_lines[i].total_length
              = SumSeq([j \in 1..(Len(r) - 1) |-> UsedLength(r[j], r[j + 1])])

\* C14: in the route of a line no node occurs twice, except that the first
\* and the last node can both be the terminus.
C14_NoIntermediateRepeats ==
    \A r \in Routes : \A j, k \in DOMAIN r :
        (j < k /\ r[j] = r[k]) => (j = 1 /\ k = Len(r))

\* C20: the lines of one call start at different nodes, each at a terminus
\* node, and there are at most min(num_lines, number of terminus nodes) of
\* them.
C20_DistinctAnchors ==
    /\ \A i, j \in DOMAIN tram_lines :
          i # j => tram_lines[i].route[1] # tram_lines[j].route[1]
    /\ \A r \in Routes : r[1] \in TerminusNodes
    /\ Len(tram_lines) <= Min({num_lines, Cardinality(TerminusNodes)})

\* The call has returned with fewer lines than terminus nodes, num_lines
\* being the smaller number.
C20_Witness ==
    /\ pc = "lines_done"
    /\ num_lines < Cardinality(TerminusNodes)
    /\ Len(tram_lines) = num_lines


\* ---------------------------------------------------------------------- C15
\* The hour whose frame was drawn last.
Hour == frame - 1

\* q < 0.001, for a fraction q
BelowEpsilon(q) == q.num < 0 \/ q.num <= (q.den - 1) \div 1000

\* C15: in the frame of every hour 0..23 the day multiplier and the night
\* multiplier used to weight the features are both at least 0.001.
C15_MultipliersAtLeastEpsilon ==
    (frame > 0 /\ Hour \in 0..23) =>
        /\ ~BelowEpsilon(day_multiplier)
        /\ ~BelowEpsilon(night_multiplier)


\* ---------------------------------------------------------------------- C16
\* The nodes a stop record has been attached to.
Hosts == {n \in Range(nodes) : node_data[n].stops # <<>>}

\* The nodes the simplifier still has to remove.
CrossingsLeft == {n \in Range(nodes) : is_crossing(script, node_data[n].railway)}

\* C16: the simplification is complete before a stop record is snapped: when
\* a node of the graph hosts a stop, no crossing node is left in the graph.
C16_SimplifiedBeforeSnapped == Hosts # {} => CrossingsLeft = {}


\* ---------------------------------------------------------------------- C17
\* The (in-edge, out-edge) pairs of c whose way-identifier sets intersect.
SharingPairs(E, c) ==
    {p \in {e \in E : e.v = c} \X {e \in E : e.u = c} :
        (p[1].osmid \cap p[2].osmid) # {}}

\* The edges of E from u to v.
Between(E, u, v) == {e \in E : e.u = u /\ e.v = v}

\* C17: when a crossing node c is removed, one connection is made for each
\* (in-edge u -> c, out-edge c -> v) pair whose way-identifier sets intersect
\* and none for any other pair; between any two remaining nodes u and v
\* (u = v included) the graph then holds the edges it held before and one more
\* edge for every such pair, each under a key of its own.
C17_OneEdgePerMatchingPair ==
    [][ (pc = "remove" /\ nodes' # nodes) =>
          LET c == nodes_to_remove[rm_idx]
              P == SharingPairs(edges, c)
              new == connections_to_add'
          IN  /\ Len(new) = Cardinality(P)
              /\ \A u, v \in Range(nodes) :
                    Cardinality({i \in DOMAIN new : new[i].u = u /\ new[i].v = v})
                      = Cardinality({p \in P : p[1].u = u /\ p[2].v = v})
              /\ \A u, v \in Range(nodes') :
                    /\ Between(edges, u, v) \subseteq Between(edges', u, v)
                    /\ Cardinality(Between(edges', u, v))
                         = Cardinality(Between(edges, u, v))
                             + Cardinality({p \in P : p[1].u = u /\ p[2].v = v})
                    /\ \A e, f \in Between(edges', u, v) : e.key = f.key => e = f ]_vars

\* A crossing has been removed that had two matching pairs between the same
\* two nodes.
C17_Witness ==
    /\ pc = "remove"
    /\ Len(connections_to_add) >= 2
    /\ \E i, j \in DOMAIN connections_to_add :
          /\ i # j
          /\ connections_to_add[i].u = connections_to_add[j].u
          /\ connections_to_add[i].v = connections_to_add[j].v
          /\ Cardinality(Between(edges, connections_to_add[i].u, connections_to_add[i].v)) >= 2


\* ---------------------------------------------------------------------- C18
\* The geometry the merge policy gives the edge made of an in-edge and an
\* out-edge: the two polylines joined, the shared point once, when both
\* exist and meet; none otherwise.
PolicyGeometry(data_in, data_out) ==
    IF /\ data_in.geometry # NoGeom
       /\ data_out.geometry # NoGeom
       /\ data_in.geometry[Len(data_in.geometry)] = data_out.geometry[1]
    THEN data_in.geometry \o Tail(data_out.geometry)
    ELSE NoGeom

\* C18: every edge synthesized when a crossing node is removed carries the
\* geometry of the merge policy: the concatenation when both edges have a
\* geometry and the in-edge's last coordinate is the out-edge's first, no
\* geometry in every other case.
C18_GeometryMergePolicy ==
    [][ (pc = "remove" /\ nodes' # nodes) =>
          LET c == nodes_to_remove[rm_idx]
              new == connections_to_add'
          IN  \A i \in DOMAIN new :
                 \E p \in SharingPairs(edges, c) :
                    /\ new[i].u = p[1].u
                    /\ new[i].v = p[2].v
                    /\ new[i].attrs.length = p[1].length + p[2].length
                    /\ new[i].attrs.geometry = PolicyGeometry(p[1], p[2]) ]_vars


\* ---------------------------------------------------------------------- C19
\* The number of POIs within the proximity radius of node v.
PoisNear(v) ==
    Cardinality({i \in DOMAIN pois_gdf :
        (pois_gdf[i][1] - node_data[v].x) * (pois_gdf[i][1] - node_data[v].x)
          + (pois_gdf[i][2] - node_data[v].y) * (pois_gdf[i][2] - node_data[v].y)
            <= 200 * 200})

\* C19: when the search starts, and from then on, every node carries its
\* importance, the number of POIs near it, and every edge (u, v, key) carries
\* the cost length / (importance of v + 1); the search changes neither.
C19_CostsReadyBeforeSearch ==
    [][ (pc \in {"search", "done"} /\ script = "add_weight_to_stops") =>
          /\ \A n \in Range(nodes) : node_data[n].importance_weight = PoisNear(n)
          /\ DOMAIN weighted_cost = edges
          /\ \A e \in edges :
                weighted_cost[e] * (PoisNear(e.v) + 1) = e.length * CostScale
          /\ weighted_cost' = weighted_cost
          /\ node_data' = node_data
          /\ edges' = edges ]_vars

\* The search starts with an edge made cheaper by the importance of its
\* destination and an edge of the same length left at full cost.
C19_Witness ==
    /\ pc = "search"
    /\ \E e, f \in edges :
          /\ e.length = f.length
          /\ e.length > 0
          /\ PoisNear(e.v) > 0
          /\ PoisNear(e.u) = 0
          /\ weighted_cost[e] < weighted_cost[f]
          /\ weighted_cost[f] = f.length * CostScale


\* ---------------------------------------------------------------------- C21
\* C21: when the targets of a line are exhausted, the route is made to end at
\* the terminus if the terminus can be reached from the route's tail, and is
\* left ending at the tail if not; either way the route is recorded as a line
\* when it has more than 3 nodes, and the loop goes on to the next line.
C21_LoopClosing ==
    [][ (pc = "line_targets" /\ targets = <<>>) =>
          LET start_petla == petla_nodes[line_i]
              closes == start_petla \in ReachableFrom({current_node})
              r == route_nodes'
          IN  /\ r[1] = start_petla
              /\ closes => r[Len(r)] = start_petla
              /\ ~closes => r = route_nodes /\ r[Len(r)] = current_node
              /\ Len(r) > 3 => /\ Len(tram_lines') = Len(tram_lines) + 1
                               /\ tram_lines'[Len(tram_lines')].route = r
              /\ line_i' = line_i + 1
              /\ pc' = "line_start" ]_vars

\* An open route has been recorded as the first line and a second line is
\* about to be started.
C21_Witness ==
    /\ pc = "line_start"
    /\ line_i = 2
    /\ line_i <= Min({num_lines, Len(petla_nodes)})
    /\ Len(tram_lines) = 1
    /\ tram_lines[1].route[1] # tram_lines[1].route[Len(tram_lines[1].route)]


\* ---------------------------------------------------------------------- C22
\* C22: every line recorded has a route of more than 3 nodes, and a route of
\* 3 or fewer nodes adds no line when its line is closed; so a terminus from
\* which no target is reached, whose route is the terminus alone, gives no
\* line.
C22_MoreThanThreeNodes ==
    [][ /\ \A i \in DOMAIN tram_lines' : Len(tram_lines'[i].route) > 3
        /\ (pc = "line_targets" /\ targets = <<>> /\ Len(route_nodes') <= 3)
              => tram_lines' = tram_lines ]_vars

\* The call has returned after two terminus nodes were tried, and the second
\* one, from which no target was reached, gave no line.
C22_Witness ==
    /\ pc = "lines_done"
    /\ line_i = 3
    /\ Len(tram_lines) = 1
    /\ tram_lines[1].line_number = 1
    /\ route_nodes = <<petla_nodes[2]>>


\* ---------------------------------------------------------------------- C23
\* The nodes that can be a target: no terminus, positive demand.
Candidates ==
    {n \in Range(nodes) : n \notin TerminusNodes /\ node_data[n].total_demand # Absent
                          /\ node_data[n].total_demand > 0}

\* The candidates with fewer than 8 candidates of higher demand.
TopEight ==
    {n \in Candidates :
        Cardinality({m \in Candidates :
            node_data[m].total_demand > node_data[n].total_demand}) < 8}

\* C23: the targets drawn for a line are at most 5 nodes, each no terminus,
\* of positive demand and among the 8 candidates of highest demand; a target
\* that cannot be reached from the route's tail leaves the route and the tail
\* as they are, a target that can be reached becomes the tail.
C23_TargetSelection ==
    [][ /\ (pc = "line_start" /\ pc' = "line_targets") =>
              /\ Len(targets') <= 5
              /\ Range(targets') \subseteq TopEight
        /\ (pc = "line_targets" /\ targets # <<>>) =>
              IF Head(targets) \in ReachableFrom({current_node})
              THEN /\ current_node' = Head(targets)
                   /\ route_nodes'[Len(route_nodes')] = Head(targets)
              ELSE /\ route_nodes' = route_nodes
                   /\ current_node' = current_node ]_vars

\* Five targets were drawn where nine nodes were candidates; the first one
\* could not be reached and was skipped.
C23_Witness ==
    /\ pc = "line_targets"
    /\ Cardinality(Candidates) > 8
    /\ Len(targets) = 4
    /\ route_nodes = <<petla_nodes[line_i]>>


\* ---------------------------------------------------------------------- C24
\* The demand a route position counts for: the node's total_demand, 0 for a
\* node without one.
PositionDemand(r, j) ==
    IF node_data[r[j]].total_demand = Absent THEN 0 ELSE node_data[r[j]].total_demand

\* C24: the total_demand of a line is the sum of the total_demand of the
\* nodes at the positions of its route, 0 for a node without total_demand,
\* every position counted, so the terminus of a closed loop twice.
C24_DemandOfRoutePositions ==
    \A i \in DOMAIN tram_lines :
        LET r == tram_lines[i].route
        IN  tram_lines[i].total_demand = SumSeq([j \in DOMAIN r |-> PositionDemand(r, j)])

\* A closed loop through a node without demand has been recorded; its
\* terminus, of positive demand, counts at both ends.
C24_Witness ==
    \E i \in DOMAIN tram_lines :
        LET r == tram_lines[i].route
        IN  /\ r[1] = r[Len(r)]
            /\ PositionDemand(r, 1) > 0
            /\ \E j \in DOMAIN r : node_data[r[j]].total_demand = Absent
            /\ tram_lines[i].total_demand >= 2 * PositionDemand(r, 1) + 1


\* ---------------------------------------------------------------------- C25
\* C25: in the frame of every hour every feature of category bars weighs
\* 1.4 times the night multiplier, every feature of another category of the
\* table its base weight (shops 1.0, schools 1.5) times the day multiplier,
\* and every feature without a recognised category the default weight 0.5.
C25_MultiplierSelection ==
    frame > 0 =>
        /\ DOMAIN animated_weights = DOMAIN feature_categories
        /\ \A i \in DOMAIN feature_categories :
              animated_weights[i] =
                 CASE feature_categories[i] = "bars"    -> QMul(Q(7, 5), night_multiplier)
                   [] feature_categories[i] = "shops"   -> QMul(Q(1, 1), day_multiplier)
                   [] feature_categories[i] = "schools" -> QMul(Q(3, 2), day_multiplier)
                   [] OTHER                             -> Q(1, 2)

\* A frame has been drawn with a bar and a feature of a day category, the
\* two multipliers being different.
C25_Witness ==
    /\ frame > 0
    /\ day_multiplier # night_multiplier
    /\ \E i, j \in DOMAIN feature_categories :
          /\ feature_categories[i] = "bars"
          /\ feature_categories[j] \in {"shops", "schools"}
          /\ animated_weights[i] = QMul(Q(7, 5), night_multiplier)


\* ---------------------------------------------------------------------- C26
\* C26: the route of a line holds no terminus node but the one the line
\* starts at.
C26_NoForeignTerminus ==
    \A r \in Routes : \A j \in DOMAIN r : r[j] \in TerminusNodes => r[j] = r[1]


\* ---------------------------------------------------------------------- C27
\* The nodes of the loaded network that are tagged as a level crossing.
TaggedCrossings ==
    {n \in Range(tram_graph.nodes) : tram_graph.node_data[n].railway = "railway_crossing"}

\* What a node was loaded with.
Loaded(rec) == [railway |-> rec.railway, x |-> rec.x, y |-> rec.y, stops |-> rec.stops]

\* C27: through the whole simplification every node not tagged as a crossing,
\* switch nodes included, is in the graph with the attributes it was loaded
\* with, every loaded edge that touches no crossing node is in the graph
\* unchanged, and every edge of the graph has both its end nodes in the
\* graph; a removal step takes out at most the one node it is about, a
\* crossing, and changes no attribute of another node.
C27_SimplifierFrame ==
    [][ /\ \A n \in Range(tram_graph.nodes) \ TaggedCrossings :
              /\ n \in Range(nodes')
              /\ Loaded(node_data'[n]) = Loaded(tram_graph.node_data[n])
        /\ \A e \in tram_graph.edges :
              (e.u \notin TaggedCrossings /\ e.v \notin TaggedCrossings) => e \in edges'
        /\ \A e \in edges' : e.u \in Range(nodes') /\ e.v \in Range(nodes')
        /\ DOMAIN node_data' = Range(nodes')
        /\ pc = "remove" =>
              /\ Range(nodes) \ Range(nodes') \subseteq
                    {nodes_to_remove[i] : i \in {rm_idx} \cap DOMAIN nodes_to_remove}
                      \cap TaggedCrossings
              /\ \A n \in Range(nodes') : node_data'[n] = node_data[n]
              /\ \A e \in edges' \ edges : e.u \in Range(nodes') /\ e.v \in Range(nodes') ]_vars

\* The simplifier has returned: a crossing is gone, a switch node and a
\* loaded edge next to it are still there, beside a synthesized edge.
C27_Witness ==
    /\ pc = "simplified"
    /\ TaggedCrossings # {}
    /\ TaggedCrossings \cap Range(nodes) = {}
    /\ \E n \in Range(nodes) : node_data[n].railway = "switch"
    /\ edges \cap tram_graph.edges # {}
    /\ edges \ tram_graph.edges # {}


\* ---------------------------------------------------------------------- C28
\* C28: compute_random_route returns under fair random choice, that is, its
\* loop `while end_node == start_node` can always be left: whenever the loop
\* is running, the end node differs from the start node already or a draw
\* can make it differ; and what is returned is the no-route value or a route
\* from the start node to a different end node.
C28_RandomRouteReturns ==
    /\ pc = "retry" => (end_node # start_node \/ Hosts \ {start_node} # {})
    /\ pc = "returned" =>
          /\ end_node # start_node
          /\ route = None \/ (route[1] = start_node /\ route[Len(route)] = end_node)


\* ---------------------------------------------------------------------- C29
\* The sum of total_demand over the nodes of the graph.
GraphDemand ==
    SumSeq([i \in DOMAIN nodes |->
              IF node_data[nodes[i]].total_demand = Absent THEN 0
              ELSE node_data[nodes[i]].total_demand])

\* The sum of the demand values of the stop records.
RecordDemand == SumSeq([i \in DOMAIN stops_gdf |-> stops_gdf[i].demand])

\* C29: after snap_stops_to_graph followed by remove_railway_crossings the
\* sum of total_demand over the nodes of the graph equals the sum of the
\* demand values of the stop records, and a terminus record leaves a node
\* marked has_petla.
C29_DemandSurvives ==
    (script = "create_tram_graph_demand" /\ pc = "simplified") =>
        /\ GraphDemand = RecordDemand
        /\ (\E i \in DOMAIN stops_gdf : stops_gdf[i].type = "petla")
              => \E n \in Range(nodes) : node_data[n].has_petla


\* ---------------------------------------------------------------------- C30
\* The nodes whose type is that of a terminus.
PetlaTyped == {n \in Range(nodes) : node_data[n].type = "petla"}

\* The script has gone past the selection of the two end points.
Routing == pc \in {"cost", "search", "done", "saved"}

\* C30: the route search is started only with two distinct terminus nodes as
\* source and target, the run stops before routing when fewer than two
\* terminus nodes exist, and a non-empty route returned by the search starts
\* at the source and ends at the target.
C30_RouterEndpoints ==
    /\ Routing => /\ start_node # end_node
                  /\ {start_node, end_node} \subseteq PetlaTyped
    /\ Cardinality(PetlaTyped) < 2 => ~Routing /\ route = <<>>
    /\ pc = "exit" => Cardinality(PetlaTyped) < 2
    /\ (pc \in {"done", "saved"} /\ route # <<>>) =>
          /\ route[1] = start_node
          /\ route[Len(route)] = end_node

\* A route of more than two nodes has been found between two of three
\* terminus nodes.
C30_Witness ==
    /\ pc = "done"
    /\ Cardinality(PetlaTyped) = 3
    /\ Len(route) > 2
    /\ route[1] = start_node
    /\ route[Len(route)] = end_node

====
